---------------------------- MODULE Spec2Model ----------------------------
(***************************************************************************)
(* A model of the combat-sports news pipeline: the SQLite article store    *)
(* (pipeline/storage.py), the orchestrator and its link discovery          *)
(* (pipeline/run.py), and the sport classifier (pipeline/sitegen.py).      *)
(*                                                                         *)
(* Python strings are modelled as sequences of one-character strings, so   *)
(* that lower(), `in`, startswith, endswith, count, strip and slicing are  *)
(* computed as the code computes them.                                     *)
(***************************************************************************)
EXTENDS Integers, Sequences, FiniteSets, TLC

(***************************************************************************)
(* String primitives (Python str methods used by the code).                *)
(***************************************************************************)

\* The letters str.lower() changes among the characters the model uses.
UPPER_CHARS ==
    <<"A","B","C","D","E","F","G","H","I","J","K","L","M","N","O","P","Q","R","S","T","U","V","W","X","Y","Z","Á">>

LOWER_CHARS ==
    <<"a","b","c","d","e","f","g","h","i","j","k","l","m","n","o","p","q","r","s","t","u","v","w","x","y","z","á">>

\* The lower-case letter of each upper-case letter.
LowerOf == [c \in {UPPER_CHARS[i] : i \in 1..Len(UPPER_CHARS)} |->
               LOWER_CHARS[CHOOSE i \in 1..Len(UPPER_CHARS) : UPPER_CHARS[i] = c]]

LowerChar(c) == IF c \in DOMAIN LowerOf THEN LowerOf[c] ELSE c

\* The sequence f as an explicit tuple (the same value).
Tuple(f) == f \o <<>>

\* str.lower()
Lower(s) == Tuple([i \in 1..Len(s) |-> LowerChar(s[i])])

\* k in s  (substring test); only positions holding k's first character can match.
Contains(k, s) ==
    \/ k = <<>>
    \/ \E i \in {j \in 1..(Len(s) - Len(k) + 1) : s[j] = k[1]} :
           SubSeq(s, i, i + Len(k) - 1) = k

\* any(k in s for k in keys), keys a list of strings
AnyIn(keys, s) == \E j \in 1..Len(keys) : Contains(keys[j], s)

\* s.startswith(p)
StartsWith(s, p) == Len(p) <= Len(s) /\ SubSeq(s, 1, Len(p)) = p

\* s.endswith(p)
EndsWith(s, p) == Len(p) <= Len(s) /\ SubSeq(s, Len(s) - Len(p) + 1, Len(s)) = p

\* s.count(c) for a one-character c
CountChar(s, c) == Cardinality({i \in 1..Len(s) : s[i] = c})

\* s[:n]
Take(s, n) == SubSeq(s, 1, IF n < Len(s) THEN n ELSE Len(s))

SPACE == <<" ">>

\* The characters str.strip() and str.split() treat as whitespace.
IsWs(c) == c \in {" ", "\n", "\t", "\r"}

\* s.strip()
Strip(s) ==
    IF \A i \in 1..Len(s) : IsWs(s[i]) THEN <<>>
    ELSE LET first == CHOOSE i \in 1..Len(s) : ~IsWs(s[i]) /\ \A j \in 1..(i-1) : IsWs(s[j])
             last  == CHOOSE i \in 1..Len(s) : ~IsWs(s[i]) /\ \A j \in (i+1)..Len(s) : IsWs(s[j])
         IN  SubSeq(s, first, last)

\* " ".join(s.split()): runs of whitespace become one space, none at the ends.
JoinSplit(s) ==
    LET t       == Strip(s)
        indexed == Tuple([i \in 1..Len(t) |-> <<i, t[i]>>])
        Keep(p) == ~IsWs(p[2]) \/ ~IsWs(t[p[1] - 1])
        kept    == SelectSeq(indexed, Keep)
    IN  Tuple([i \in 1..Len(kept) |-> IF IsWs(kept[i][2]) THEN " " ELSE kept[i][2]])

\* s.replace("\n", " ")
ReplaceNewlines(s) == Tuple([i \in 1..Len(s) |-> IF s[i] = "\n" THEN " " ELSE s[i]])

(***************************************************************************)
(* pipeline/sitegen.py: the sport classifier.                              *)
(***************************************************************************)

SITE_KEYWORDS_MMA ==
    << <<"u","f","c">>, <<"m","m","a">>, <<"t","o","p","u","r","i","a">>, <<"m","a","k","h","a","c","h","e","v">>, <<"p","e","r","e","i","r","a">>, <<"v","o","l","k","a","n","o","v","s","k","i">>,
       <<"f","i","g","h","t"," ","n","i","g","h","t">>, <<"o","c","t","a","g","o","n","o">>, <<"o","c","t","á","g","o","n","o">> >>

SITE_KEYWORDS_BOX ==
    << <<"b","o","x","e","o">>, <<"w","b","c">>, <<"w","b","a">>, <<"i","b","f">>, <<"w","b","o">>,
       <<"c","a","n","e","l","o">>, <<"i","n","o","u","e">>, <<"t","y","s","o","n">>, <<"c","r","a","w","f","o","r","d">>, <<"u","s","y","k">>, <<"f","u","r","y">> >>

classify_sport(title, url, text) ==
    LET s   == Lower(title \o SPACE \o url \o SPACE \o text)
        mma == AnyIn(SITE_KEYWORDS_MMA, s)
        box == AnyIn(SITE_KEYWORDS_BOX, s)
    IN  IF mma /\ ~box THEN "MMA"
        ELSE IF box /\ ~mma THEN "Boxeo"
        ELSE IF mma /\ box THEN "Mixto"
        ELSE "Otro"

(***************************************************************************)
(* pipeline/run.py: the topic filter.                                      *)
(***************************************************************************)

KEYWORDS_MMA ==
    << <<"u","f","c">>, <<"m","m","a">>, <<"t","o","p","u","r","i","a">>, <<"m","a","k","h","a","c","h","e","v">>, <<"p","e","r","e","i","r","a">>, <<"v","o","l","k","a","n","o","v","s","k","i">>,
       <<"f","i","g","h","t"," ","n","i","g","h","t">>, <<"o","c","t","a","g","o","n","o">>, <<"o","c","t","á","g","o","n","o">> >>

KEYWORDS_BOX ==
    << <<"b","o","x","e","o">>, <<"w","b","c">>, <<"w","b","a">>, <<"i","b","f">>, <<"w","b","o">>,
       <<"p","e","s","o"," ","p","l","u","m","a">>, <<"p","e","s","o"," ","w","e","l","t","e","r">>, <<"p","e","s","o"," ","m","e","d","i","o">>,
       <<"c","a","n","e","l","o">>, <<"i","n","o","u","e">>, <<"t","y","s","o","n">>, <<"c","r","a","w","f","o","r","d">>, <<"u","s","y","k">>, <<"f","u","r","y">> >>

STOPWORDS_URL ==
    << <<"/","f","u","t","b","o","l","/">>, <<"/","t","e","n","i","s","/">>, <<"/","b","a","l","o","n","c","e","s","t","o","/">>, <<"/","c","i","c","l","i","s","m","o","/">>, <<"/","j","u","e","g","o","s","-","o","l","i","m","p","i","c","o","s","/">>,
       <<"/","s","n","o","o","k","e","r","/">>, <<"/","m","o","t","o","r","/">>, <<"/","f","o","r","m","u","l","a","-","1","/">>, <<"/","m","o","t","o","g","p","/">>, <<"/","g","o","l","f","/">>, <<"/","r","u","g","b","y","/">>,
       <<"/","c","a","l","e","n","d","a","r","i","o">>, <<"/","r","e","s","u","l","t","a","d","o","s">>, <<"/","m","e","d","a","l","l","e","r","o">>, <<"/","e","q","u","i","p","o">>, <<"/","d","e","p","o","r","t","e","s","/">>,
       <<"/","s","u","s","c","r","i","b">>, <<"/","r","e","g","i","s","t","r","o">>, <<"/","i","n","i","c","i","o">>, <<"/","v","e","r">>, <<"/","p","a","r","a","-","t","i">> >>

looks_like_combat_sports(title, url) ==
    LET s == Lower(title \o SPACE \o url)
    IN  IF AnyIn(STOPWORDS_URL, s) THEN FALSE
        ELSE AnyIn(KEYWORDS_MMA, s) \/ AnyIn(KEYWORDS_BOX, s)

(***************************************************************************)
(* pipeline/run.py: link discovery.                                        *)
(***************************************************************************)

\* urlparse(u).scheme, for u of the form scheme://netloc/path
UrlScheme(u) ==
    IF \E i \in 1..Len(u) : u[i] = ":"
    THEN LET i == CHOOSE i \in 1..Len(u) : u[i] = ":" /\ \A j \in 1..(i-1) : u[j] # ":"
         IN  Lower(SubSeq(u, 1, i - 1))
    ELSE <<>>

\* urlparse(u).netloc: what follows "//" up to the next "/", "?" or "#"
UrlNetloc(u) ==
    IF \E i \in 1..(Len(u) - 2) : SubSeq(u, i, i + 2) = <<":","/","/">>
    THEN LET i    == CHOOSE i \in 1..(Len(u) - 2) :
                       /\ SubSeq(u, i, i + 2) = <<":","/","/">>
                       /\ \A j \in 1..(i-1) : SubSeq(u, j, j + 2) # <<":","/","/">>
             rest == SubSeq(u, i + 3, Len(u))
             stop == {k \in 1..Len(rest) : rest[k] \in {"/", "?", "#"}}
         IN  IF stop = {} THEN rest
             ELSE SubSeq(rest, 1, (CHOOSE k \in stop : \A m \in stop : k <= m) - 1)
    ELSE <<>>

ASSET_EXTS ==
    << <<".","j","p","g">>, <<".","p","n","g">>, <<".","s","v","g">>, <<".","c","s","s">>, <<".","j","s">>, <<".","w","e","b","p">>, <<".","m","p","4">>, <<".","w","o","f","f">>, <<".","w","o","f","f","2">> >>

NAV_PARTS ==
    << <<"/","i","n","i","c","i","o">>, <<"/","v","e","r">>, <<"/","p","a","r","a","-","t","i">>, <<"/","s","u","s","c","r","i","b">>, <<"/","r","e","g","i","s","t","r","o">>,
       <<"/","d","e","p","o","r","t","e","s">>, <<"/","r","e","s","u","l","t","a","d","o","s">>, <<"/","c","a","l","e","n","d","a","r","i","o">>, <<"/","m","e","d","a","l","l","e","r","o">>, <<"/","e","q","u","i","p","o">> >>

MIN_LINK_TEXT == 18

MIN_SLASHES == 4

\* The href of an anchor after a leading "/" is resolved against the page fetched.
ResolveHref(href, final_url) ==
    IF StartsWith(href, <<"/">>)
    THEN UrlScheme(final_url) \o <<":","/","/">> \o UrlNetloc(final_url) \o href
    ELSE href

\* Whether the loop over soup.select("a[href]") keeps the anchor.
KeepsAnchor(a, final_url) ==
    LET href   == ResolveHref(a.href, final_url)
        href_l == Lower(href)
    IN  /\ ~(a.href = <<>> \/ Len(a.text) < MIN_LINK_TEXT)
        /\ StartsWith(href, <<"h","t","t","p">>)
        /\ ~(\E j \in 1..Len(ASSET_EXTS) : EndsWith(href_l, ASSET_EXTS[j]))
        /\ ~AnyIn(NAV_PARTS, href_l)
        /\ ~(CountChar(href_l, "/") < MIN_SLASHES)

\* The `candidates` list built from the anchors, in document order.
RECURSIVE HtmlCandidates(_, _)
HtmlCandidates(anchors, final_url) ==
    IF anchors = <<>> THEN <<>>
    ELSE LET a    == Head(anchors)
             rest == HtmlCandidates(Tail(anchors), final_url)
         IN  IF KeepsAnchor(a, final_url)
             THEN <<[title |-> a.text, url |-> ResolveHref(a.href, final_url),
                     published |-> <<>>]>> \o rest
             ELSE rest

\* The dedupe loop: `for c in candidates`, from candidate i on.
RECURSIVE DedupeLoop(_, _, _, _, _)
DedupeLoop(cands, i, seen, out, limit) ==
    IF i > Len(cands) THEN out
    ELSE IF cands[i].url \in seen THEN DedupeLoop(cands, i + 1, seen, out, limit)
    ELSE LET out2 == Append(out, cands[i])
         IN  IF Len(out2) >= limit THEN out2
             ELSE DedupeLoop(cands, i + 1, seen \cup {cands[i].url}, out2, limit)

\* get_urls_from_html_list, given the page fetch(list_url) returned.
get_urls_from_html_list(page, limit) ==
    DedupeLoop(HtmlCandidates(page.anchors, page.final_url), 1, {}, <<>>, limit)

\* entry.title / entry.link / entry.published, "" when missing or empty
\* (a missing field of a feed entry is the empty string here).
RssCandidate(e) == [title |-> e.title, url |-> e.link, published |-> e.published]

\* get_urls_from_rss, given the entries feedparser.parse returned (limit >= 0).
get_urls_from_rss(entries, limit) ==
    [i \in 1..(IF limit < Len(entries) THEN limit ELSE Len(entries)) |-> RssCandidate(entries[i])]

(***************************************************************************)
(* pipeline/storage.py: the SQLite store.  A table is the set of its rows; *)
(* the PRIMARY KEY constraints are modelled where the statements run.      *)
(***************************************************************************)

\* SELECT * FROM articles WHERE url = ?   (the result set)
SelectByUrl(tbl, url) == {r \in tbl : r.url = url}

\* Mutant: the existence probe looks the url up in the final_url column.
has_url_ByFinalUrl(tbl, url) == \E r \in tbl : r.final_url = url

\* Mutant: the existence probe never finds a row.
has_url_Never(tbl, url) == FALSE

\* has_url: SELECT 1 FROM articles WHERE url = ? LIMIT 1 ... row is not None
has_url(tbl, url) == SelectByUrl(tbl, url) # {}

\* An optional value: None is <<>>, a value x is <<x>>.
None == <<>>
Some(x) == <<x>>

\* get_by_url: fetchone() of the result set, None when it is empty
get_by_url(tbl, url) ==
    IF SelectByUrl(tbl, url) = {} THEN None
    ELSE Some(CHOOSE r \in SelectByUrl(tbl, url) : TRUE)

\* Mutant: the INSERT leaves the content_hash column out.
SqlInsertArticle_NoHash(tbl, a) ==
    IF \E r \in tbl : r.url = a.url
    THEN [raised |-> TRUE,  table |-> tbl]
    ELSE [raised |-> FALSE, table |-> tbl \cup {[a EXCEPT !.content_hash = <<>>]}]

\* Mutant: the url column is no PRIMARY KEY, the INSERT never raises.
SqlInsertArticle_NoKey(tbl, a) == [raised |-> FALSE, table |-> tbl \cup {a}]

\* INSERT INTO articles (...) VALUES (...): url is the PRIMARY KEY, so the
\* statement raises sqlite3.IntegrityError when a row with that url exists.
SqlInsertArticle(tbl, a) ==
    IF \E r \in tbl : r.url = a.url
    THEN [raised |-> TRUE,  table |-> tbl]
    ELSE [raised |-> FALSE, table |-> tbl \cup {a}]

\* Mutant: the update path adds the incoming row and keeps the stored one.
SqlUpdateArticle_AddsRow(tbl, a) == tbl \cup {a}

\* UPDATE articles SET <all columns but url> WHERE url = ?
SqlUpdateArticle(tbl, a) ==
    {IF r.url = a.url
     THEN [url |-> r.url, final_url |-> a.final_url, title |-> a.title,
           source |-> a.source, published |-> a.published, domain |-> a.domain,
           fetched_at |-> a.fetched_at, extracted_chars |-> a.extracted_chars,
           content_hash |-> a.content_hash, text |-> a.text]
     ELSE r : r \in tbl}

\* (x or "") on a str column value
OrEmpty(x) == IF x = <<>> THEN <<>> ELSE x

\* (x or 0) on an int column value
OrZero(x) == IF x = 0 THEN 0 ELSE x

\* Mutant: change detection by content hash alone.
SameContent_HashOnly(existing, a) ==
    OrEmpty(existing.content_hash) = OrEmpty(a.content_hash)

\* The change-detection test of upsert_article: content hash and length only.
SameContent(existing, a) ==
    /\ OrEmpty(existing.content_hash) = OrEmpty(a.content_hash)
    /\ OrZero(existing.extracted_chars) = a.extracted_chars

\* Mutant: an unchanged article still has its row rewritten.
upsert_article_TouchesUnchanged(tbl, a) ==
    LET existing == get_by_url(tbl, a.url)
    IN  IF existing = None
        THEN [res |-> "new", table |-> SqlInsertArticle(tbl, a).table]
        ELSE IF SameContent(existing[1], a)
        THEN [res |-> "unchanged", table |-> SqlUpdateArticle(tbl, a)]
        ELSE [res |-> "updated", table |-> SqlUpdateArticle(tbl, a)]

\* upsert_article(a): the value returned ("IntegrityError" when the INSERT
\* raises) and the articles table afterwards.
upsert_article(tbl, a) ==
    LET existing == get_by_url(tbl, a.url)
    IN  IF existing = None
        THEN LET ins == SqlInsertArticle(tbl, a)
             IN  [res |-> IF ins.raised THEN "IntegrityError" ELSE "new", table |-> ins.table]
        ELSE IF SameContent(existing[1], a)
        THEN [res |-> "unchanged", table |-> tbl]
        ELSE [res |-> "updated", table |-> SqlUpdateArticle(tbl, a)]

\* upsert_article from the line after `existing = self.get_by_url(a.url)` on,
\* against the table as it is when the statement runs: existing is what the
\* read returned, which another writer may have outdated since.
UpsertAfterRead(tbl, existing, a) ==
    IF existing = None
    THEN LET ins == SqlInsertArticle(tbl, a)
         IN  [res |-> IF ins.raised THEN "IntegrityError" ELSE "new", table |-> ins.table]
    ELSE IF SameContent(existing[1], a)
    THEN [res |-> "unchanged", table |-> tbl]
    ELSE [res |-> "updated", table |-> SqlUpdateArticle(tbl, a)]

\* INSERT OR REPLACE INTO runs (...): run_id is the PRIMARY KEY, so a row with
\* the same run_id is deleted before the new one is inserted.
record_run(tbl, run) == {r \in tbl : r.run_id # run.run_id} \cup {run}

\* list_recent: SELECT * FROM articles ORDER BY fetched_at DESC LIMIT ?
\* The orders the query may return the rows in (rows of equal fetched_at in any order).
list_recent(tbl, limit) ==
    LET n == Cardinality(tbl)
    IN  {Take(f, limit) : f \in {g \in [1..n -> tbl] :
            /\ \A i, j \in 1..n : g[i] = g[j] => i = j
            /\ \A i, j \in 1..n : i < j => g[i].fetched_at >= g[j].fetched_at}}

\* now_utc_iso(): the clock reading cut to whole seconds. The clock counts
\* ticks of 1/TicksPerSecond s; the ISO-8601 text of a second is modelled by
\* the number of the second, which orders and distinguishes the same way.
TicksPerSecond == 2

now_utc_iso(ticks) == ticks \div TicksPerSecond

(***************************************************************************)
(* pipeline/sitegen.py: the site builder.                                  *)
(***************************************************************************)

SITE_PREVIEW_CHARS == 280

\* One entry of the ITEMS array embedded in index.html.
SiteItem(r) ==
    [title      |-> r.title,
     url        |-> r.url,
     source     |-> r.source,
     domain     |-> r.domain,
     published  |-> r.published,
     fetched_at |-> r.fetched_at,
     sport      |-> classify_sport(r.title, r.url, r.text),
     preview    |-> IF r.text = <<>> THEN <<>>
                    ELSE Strip(ReplaceNewlines(Take(r.text, SITE_PREVIEW_CHARS)))]

\* build_index: what index.html holds (the generation time, the count and
\* the items built from the rows).
build_index(site_items, generated) ==
    [generated |-> generated,
     count     |-> Len(site_items),
     items     |-> site_items]

(***************************************************************************)
(* pipeline/run.py: the orchestrator's helpers.                            *)
(***************************************************************************)

MIN_CHARS == 900

PREVIEW_CHARS == 900

SHA_INPUT_CHARS == 5000

PER_SOURCE_LIMIT == 30

LIST_RECENT_LIMIT == 2000

\* sha(text): SHA-256 of the normalised text's first 5000 characters. The
\* digest is modelled without collisions: the marker "#" followed by the
\* characters hashed (so the digest of the empty text is not empty).
sha(text) == <<"#">> \o Take(JoinSplit(Lower(text)), SHA_INPUT_CHARS)

\* extract_text(html): trafilatura's output (None or a string), stripped.
extract_text(raw) == Strip(raw)

SOURCES ==
    << [name |-> <<"m","a","r","c","a","_","p","o","r","t","a","d","a">>, type |-> <<"r","s","s">>,
        url |-> <<"h","t","t","p","s",":","/","/","e","0","0","-","m","a","r","c","a",".","u","e","c","d","n",".","e","s","/","r","s","s","/","p","o","r","t","a","d","a",".","x","m","l">>],
       [name |-> <<"d","a","z","n","_","n","e","w","s">>, type |-> <<"h","t","m","l","_","l","i","s","t">>,
        url |-> <<"h","t","t","p","s",":","/","/","w","w","w",".","d","a","z","n",".","c","o","m","/","e","s","-","E","S","/","n","e","w","s">>],
       [name |-> <<"e","u","r","o","s","p","o","r","t","_","m","m","a">>, type |-> <<"h","t","m","l","_","l","i","s","t">>,
        url |-> <<"h","t","t","p","s",":","/","/","w","w","w",".","e","u","r","o","s","p","o","r","t",".","e","s","/","m","m","a","/">>],
       [name |-> <<"e","u","r","o","s","p","o","r","t","_","u","f","c">>, type |-> <<"h","t","m","l","_","l","i","s","t">>,
        url |-> <<"h","t","t","p","s",":","/","/","w","w","w",".","e","u","r","o","s","p","o","r","t",".","e","s","/","m","m","a","/","u","f","c","/">>] >>

\* The row dict of a candidate before it is fetched.
BaseRow(src, it) ==
    [source |-> src.name, source_type |-> src.type, rss_or_list_url |-> src.url,
     title |-> it.title, url |-> it.url, published |-> it.published]

\* The row after row.update(...) with what was fetched and extracted.
FetchedRow(row, status, final_url, text) ==
    [source |-> row.source, source_type |-> row.source_type,
     rss_or_list_url |-> row.rss_or_list_url, title |-> row.title, url |-> row.url,
     published |-> row.published,
     http_status     |-> Some(status),
     final_url       |-> Some(final_url),
     domain          |-> Some(UrlNetloc(final_url)),
     extracted_chars |-> Len(text),
     extract_ok      |-> Len(text) >= MIN_CHARS,
     content_hash    |-> IF text # <<>> THEN sha(text) ELSE <<>>,
     text_preview    |-> IF text # <<>> THEN Take(text, PREVIEW_CHARS) ELSE <<>>]

\* row["error"] = ...: the row with one more key.
WithError(row, msg) ==
    [k \in DOMAIN row \cup {"error"} |-> IF k = "error" THEN msg ELSE row[k]]

LOW_CHARS_ERROR == <<"L","o","w"," ","e","x","t","r","a","c","t","e","d"," ","c","h","a","r","s"," ","(","<","9","0","0",")",".">>

\* Mutant: the except branch keeps no text of the exception.
ErrorRow_NoText(row, ex) ==
    [source |-> row.source, source_type |-> row.source_type,
     rss_or_list_url |-> row.rss_or_list_url, title |-> row.title, url |-> row.url,
     published |-> row.published,
     http_status |-> None, final_url |-> None, domain |-> None,
     extracted_chars |-> 0, extract_ok |-> FALSE, content_hash |-> <<>>,
     text_preview |-> <<>>, error |-> <<>>]

\* The row after the except branch's row.update(...); ex is repr(ex).
ErrorRow(row, ex) ==
    [source |-> row.source, source_type |-> row.source_type,
     rss_or_list_url |-> row.rss_or_list_url, title |-> row.title, url |-> row.url,
     published |-> row.published,
     http_status |-> None, final_url |-> None, domain |-> None,
     extracted_chars |-> 0, extract_ok |-> FALSE, content_hash |-> <<>>,
     text_preview |-> <<>>, error |-> ex]

\* Mutant: the ArticleRow is built without the digest of its text.
MakeArticle_NoHash(row, final_url, fetched_at, text) ==
    [url |-> row.url, final_url |-> final_url, title |-> row.title,
     source |-> row.source, published |-> row.published,
     domain |-> UrlNetloc(final_url), fetched_at |-> fetched_at,
     extracted_chars |-> Len(text),
     content_hash |-> <<>>,
     text |-> text]

\* The ArticleRow built for a candidate whose extraction passed the threshold;
\* row is the updated row dict (content_hash=row["content_hash"]).
MakeArticle(row, final_url, fetched_at, text) ==
    [url |-> row.url, final_url |-> final_url, title |-> row.title,
     source |-> row.source, published |-> row.published,
     domain |-> UrlNetloc(final_url), fetched_at |-> fetched_at,
     extracted_chars |-> Len(text),
     content_hash |-> row.content_hash,
     text |-> text]

(***************************************************************************)
(* State.                                                                  *)
(***************************************************************************)
VARIABLES
    articles,   \* the articles table: a set of rows
    runs,       \* the runs table: a set of rows
    clock,      \* the wall clock, in ticks
    pc,         \* where the execution of main() stands
    nruns,      \* executions of main() started so far
    run_id,     \* main: run_id (= started_at)
    si,         \* main: index into SOURCES of the source being processed
    items,      \* main: the candidates discovered for that source
    ii,         \* main: index into items of the candidate being processed
    row,        \* main: the row dict of the candidate being fetched
    total_candidates, stored_new, stored_updated, skipped_existing, extract_ok,
    rows_probe, \* main: the debug rows of this execution
    probe_json, \* what this execution has written to out/probe.json
    site,       \* what this execution has written to site/index.html
    fx,         \* history: what fetch/extract did in the step just taken
    out_log,    \* history: the events of this execution, in order
    discovered, \* history: candidates discovered by this execution
    found,      \* history: candidates discovered by all executions
    recorded,   \* history: executions that reached record_run
    ev,         \* store harness: the last store call, its argument and result
    upserted,   \* history: the urls upsert_article was ever called with
    hl_page,    \* discovery harness: the listing page fetched (final url, anchors)
    hl_limit,   \* discovery harness: the limit passed
    hl_out,     \* discovery harness: the list returned
    hl_done,    \* discovery harness: whether the call was made
    cs_in,      \* classifier harness: the (title, url, text) triple drawn
    cs_order,   \* classifier harness: the order the fields were passed in
    cs_out,     \* classifier harness: the category returned, "none" before a call
    cu_proc,    \* concurrent upserts: each process's position, argument, row read, result
    cu_start,   \* history: the articles table when the concurrent upserts started
    cu_log      \* history: the reads and writes of the concurrent upserts, in order

dbVars       == <<articles, runs>>
counterVars  == <<total_candidates, stored_new, stored_updated, skipped_existing, extract_ok>>
fileVars     == <<probe_json, site>>
mainVars     == <<clock, pc, nruns, run_id, si, items, ii, row, counterVars, rows_probe,
                  fileVars, fx, out_log, discovered, found, recorded>>
storeVars    == <<ev, upserted>>
discoverVars == <<hl_page, hl_limit, hl_out, hl_done>>
classifyVars == <<cs_in, cs_order, cs_out>>
raceVars     == <<cu_proc, cu_start, cu_log>>
vars == <<dbVars, mainVars, storeVars, discoverVars, classifyVars, raceVars>>

\* _init_db on a fresh database file: both tables exist and are empty.
DbInit == articles = {} /\ runs = {}

NoArticle ==
    [url |-> <<>>, final_url |-> <<>>, title |-> <<>>, source |-> <<>>,
     published |-> <<>>, domain |-> <<>>, fetched_at |-> 0, extracted_chars |-> 0,
     content_hash |-> <<>>, text |-> <<>>]

NoRun ==
    [run_id |-> 0, started_at |-> 0, finished_at |-> 0, total_candidates |-> 0,
     stored_new |-> 0, stored_updated |-> 0, skipped_existing |-> 0, extract_ok |-> 0]

NoEv ==
    [op |-> "none", a |-> NoArticle, res |-> "none", had |-> FALSE, after |-> "none", seq |-> 0]

NoRow == [source |-> <<>>, source_type |-> <<>>, rss_or_list_url |-> <<>>,
          title |-> <<>>, url |-> <<>>, published |-> <<>>]

NoFx == [kind |-> "none", ex |-> <<>>]

NoSite == [generated |-> 0, count |-> 0, items |-> <<>>]

\* No execution of main() has started.
MainIdle ==
    /\ clock = 0 /\ pc = "idle" /\ nruns = 0 /\ run_id = 0
    /\ si = 0 /\ items = <<>> /\ ii = 0 /\ row = NoRow
    /\ total_candidates = 0 /\ stored_new = 0 /\ stored_updated = 0
    /\ skipped_existing = 0 /\ extract_ok = 0
    /\ rows_probe = <<>> /\ probe_json = <<>> /\ site = NoSite
    /\ fx = NoFx /\ out_log = <<>> /\ discovered = 0 /\ found = 0 /\ recorded = 0

StoreIdle    == ev = NoEv /\ upserted = {}
NoPage       == [final_url |-> <<>>, anchors |-> <<>>]
DiscoverIdle == hl_page = NoPage /\ hl_limit = 0 /\ hl_out = <<>> /\ hl_done = FALSE
ClassifyIdle == cs_in = << <<>>, <<>>, <<>> >> /\ cs_order = <<1,2,3>> /\ cs_out = "none"

\* The processes that upsert concurrently.
Procs == {1, 2}

NoCall == [pc |-> "start", a |-> NoArticle, existing |-> None, res |-> "none"]

RaceIdle == cu_proc = [p \in Procs |-> NoCall] /\ cu_start = {} /\ cu_log = <<>>

(***************************************************************************)
(* The store driven directly: any sequence of upsert_article, has_url and  *)
(* record_run calls with any ArticleRow of a small universe.               *)
(***************************************************************************)

URL_A == <<"h","t","t","p",":","/","/","d",".","e","s","/","n","/","u","f","c","1">>
URL_B == <<"h","t","t","p",":","/","/","d",".","e","s","/","n","/","b","o","x","2">>

StoreUrls   == {URL_A, URL_B}
StoreHashes == { <<>>, <<"h","1">> }
StoreChars  == {0, 900}

\* The fields change detection ignores, varied one at a time from a base row:
\* 0 none, 1 final_url, 2 title, 3 source, 4 published, 5 domain, 6 fetched_at, 7 text.
MetaVariants == 0..7

StoreArticle(u, v, h, c) ==
    [url             |-> u,
     final_url       |-> IF v = 1 THEN <<"h","t","t","p",":","/","/","d",".","e","s","/","r">> ELSE u,
     title           |-> IF v = 2 THEN <<"U","F","C"," ","3","0","1">> ELSE <<"U","F","C"," ","3","0","0">>,
     source          |-> IF v = 3 THEN <<"d","a","z","n","_","n","e","w","s">> ELSE <<"m","a","r","c","a","_","p","o","r","t","a","d","a">>,
     published       |-> IF v = 4 THEN <<"M","o","n">> ELSE <<>>,
     domain          |-> IF v = 5 THEN <<"x",".","e","s">> ELSE <<"d",".","e","s">>,
     fetched_at      |-> IF v = 6 THEN 1 ELSE 0,
     extracted_chars |-> c,
     content_hash    |-> h,
     text            |-> IF v = 7 THEN <<"u","f","c"," ","b">> ELSE <<"u","f","c"," ","a">>]

\* Every variant of URL_A's row, and URL_B's row with the base metadata.
StoreArticles ==
    {StoreArticle(URL_A, v, h, c) : v \in MetaVariants, h \in StoreHashes, c \in StoreChars}
    \cup {StoreArticle(URL_B, 0, h, c) : h \in StoreHashes, c \in StoreChars}

\* Two summaries of the same run_id.
StoreRuns ==
    {[run_id |-> 0, started_at |-> 0, finished_at |-> 0, total_candidates |-> n,
      stored_new |-> 0, stored_updated |-> 0, skipped_existing |-> 0, extract_ok |-> 0] :
        n \in 0..1}

StoreInit == DbInit /\ MainIdle /\ StoreIdle /\ DiscoverIdle /\ ClassifyIdle /\ RaceIdle

\* The result of the call before this one when it was upsert_article with the
\* same argument; "none" otherwise.
After(a) == IF ev.op = "upsert_article" /\ ev.a = a THEN ev.res ELSE "none"

StoreUpsert(a) ==
    LET r == upsert_article(articles, a)
    IN  /\ articles' = r.table
        /\ ev' = [op |-> "upsert_article", a |-> a, res |-> r.res,
                  had |-> has_url(articles, a.url), after |-> After(a), seq |-> 1 - ev.seq]
        /\ upserted' = upserted \cup {a.url}
        /\ UNCHANGED <<runs, mainVars, discoverVars, classifyVars, raceVars>>

StoreHasUrl(u) ==
    /\ ev' = [op |-> "has_url", a |-> [NoArticle EXCEPT !.url = u],
              res |-> IF has_url(articles, u) THEN "true" ELSE "false",
              had |-> has_url(articles, u), after |-> "none", seq |-> 1 - ev.seq]
    /\ UNCHANGED <<dbVars, upserted, mainVars, discoverVars, classifyVars, raceVars>>

StoreRecordRun(run) ==
    /\ runs' = record_run(runs, run)
    /\ ev' = [op |-> "record_run", a |-> NoArticle, res |-> "none", had |-> FALSE,
              after |-> "none", seq |-> 1 - ev.seq]
    /\ UNCHANGED <<articles, upserted, mainVars, discoverVars, classifyVars, raceVars>>

StoreNext ==
    \/ \E a \in StoreArticles : StoreUpsert(a)
    \/ \E u \in StoreUrls : StoreHasUrl(u)
    \/ \E run \in StoreRuns : StoreRecordRun(run)

StoreSpec == StoreInit /\ [][StoreNext]_vars

(***************************************************************************)
(* Listing-mode discovery applied to any short page and any small limit.   *)
(***************************************************************************)

LIST_FINAL_URL == <<"h","t","t","p",":","/","/","d",".","e","s","/","n","e","w","s">>

LINK_TEXT_A == <<"U","F","C"," ","3","0","0",":"," ","T","o","p","u","r","i","a"," ","g","a","n","a">>
LINK_TEXT_B == <<"C","a","n","e","l","o"," ","g","a","n","a"," ","p","o","r"," ","K","O"," ","e","n"," ","L","a","s"," ","V","e","g","a","s">>

\* Anchors of a listing page: article links (relative and absolute forms of
\* the same url among them) and links each filter drops.
Anchors ==
    { [href |-> <<"/","n","/","u","f","c","1">>,            text |-> LINK_TEXT_A],
      [href |-> <<"h","t","t","p",":","/","/","d",".","e","s","/","n","/","u","f","c","1">>, text |-> LINK_TEXT_B],
      [href |-> <<"h","t","t","p",":","/","/","d",".","e","s","/","n","/","b","o","x","2">>, text |-> LINK_TEXT_B],
      [href |-> <<"/","n","/","m","m","a","3">>,            text |-> LINK_TEXT_A],
      [href |-> <<"/","i","m","g","/","n","/","l","o","g","o",".","P","N","G">>,    text |-> LINK_TEXT_A],
      [href |-> <<"/","n","/","v","e","r","/","m","m","a">>,         text |-> LINK_TEXT_A],
      [href |-> <<"h","t","t","p",":","/","/","d",".","e","s","/","n">>,      text |-> LINK_TEXT_A],
      [href |-> <<"/","n","/","u","f","c","4">>,            text |-> <<"U","F","C"," ","3","0","0">>],
      [href |-> <<"m","a","i","l","t","o",":","a","@","d",".","e","s","/","n","/","x","/","y">>, text |-> LINK_TEXT_A],
      [href |-> <<>>,                   text |-> LINK_TEXT_A] }

MaxAnchors == 3

MaxLimit == 2

SeqsUpTo(S, n) == UNION {[1..k -> S] : k \in 0..n}

DiscoverInit ==
    /\ DbInit /\ MainIdle /\ StoreIdle /\ ClassifyIdle /\ RaceIdle
    /\ hl_page \in {[final_url |-> LIST_FINAL_URL, anchors |-> as] : as \in SeqsUpTo(Anchors, MaxAnchors)}
    /\ hl_limit \in 0..MaxLimit
    /\ hl_out = <<>>
    /\ hl_done = FALSE

DiscoverCall ==
    /\ ~hl_done
    /\ hl_out' = get_urls_from_html_list(hl_page, hl_limit)
    /\ hl_done' = TRUE
    /\ UNCHANGED <<hl_page, hl_limit, dbVars, mainVars, storeVars, classifyVars, raceVars>>

DiscoverNext == DiscoverCall

DiscoverSpec == DiscoverInit /\ [][DiscoverNext]_vars

(***************************************************************************)
(* The classifier applied to a triple of fields, in any argument order.    *)
(***************************************************************************)

\* Field values the classifier is tried on.
ClassifyFields ==
    { <<>>, <<"f","i","g","h","t">>, <<"n","i","g","h","t">>, <<"U","F","C"," ","3","0","0">>, <<"B","o","x","e","o"," ","h","o","y">>, <<"C","a","n","e","l","o">>, <<"t","e","n","i","s">>,
      <<"P","e","s","o"," ","p","l","u","m","a"," ","h","o","y">> }

Orders == { <<1,2,3>>, <<1,3,2>>, <<2,1,3>>, <<2,3,1>>, <<3,1,2>>, <<3,2,1>> }

ClassifyInit ==
    /\ DbInit /\ MainIdle /\ StoreIdle /\ DiscoverIdle /\ RaceIdle
    /\ cs_in \in ClassifyFields \X ClassifyFields \X ClassifyFields
    /\ cs_order = <<1,2,3>>
    /\ cs_out = "none"

ClassifyCall(p) ==
    /\ cs_order' = p
    /\ cs_out' = classify_sport(cs_in[p[1]], cs_in[p[2]], cs_in[p[3]])
    /\ UNCHANGED <<cs_in, dbVars, mainVars, storeVars, discoverVars, raceVars>>

ClassifyNext == \E p \in Orders : ClassifyCall(p)

ClassifySpec == ClassifyInit /\ [][ClassifyNext]_vars

(***************************************************************************)
(* Two processes (two executions of main against the same database file)   *)
(* each call upsert_article once. The call is two statements on two         *)
(* connections, the SELECT of get_by_url and then the INSERT or UPDATE;     *)
(* SQLite runs each statement atomically, and the other process may run     *)
(* its statements in between.                                               *)
(***************************************************************************)

OLD_ROW == StoreArticle(URL_A, 0, <<"h","1">>, 900)

\* The articles table when the two calls start.
RaceTables == { {}, {OLD_ROW}, {StoreArticle(URL_B, 0, <<"h","1">>, 900)} }

RaceInit ==
    /\ articles \in RaceTables /\ runs = {}
    /\ MainIdle /\ StoreIdle /\ DiscoverIdle /\ ClassifyIdle
    /\ cu_proc = [p \in Procs |-> NoCall] /\ cu_start = articles /\ cu_log = <<>>

\* existing = self.get_by_url(a.url)
RaceRead(p, a) ==
    /\ cu_proc[p].pc = "start"
    /\ cu_proc' = [cu_proc EXCEPT ![p] =
           [pc |-> "read", a |-> a, existing |-> get_by_url(articles, a.url), res |-> "none"]]
    /\ cu_log' = Append(cu_log, <<p, "read">>)
    /\ UNCHANGED <<dbVars, cu_start, mainVars, storeVars, discoverVars, classifyVars>>

\* The rest of upsert_article: the INSERT, the comparison, the UPDATE.
RaceWrite(p) ==
    /\ cu_proc[p].pc = "read"
    /\ LET r == UpsertAfterRead(articles, cu_proc[p].existing, cu_proc[p].a)
       IN  /\ articles' = r.table
           /\ cu_proc' = [cu_proc EXCEPT ![p].pc = "done", ![p].res = r.res]
    /\ cu_log' = Append(cu_log, <<p, "write">>)
    /\ UNCHANGED <<runs, cu_start, mainVars, storeVars, discoverVars, classifyVars>>

RaceNext ==
    \/ \E p \in Procs : \E a \in StoreArticles : RaceRead(p, a)
    \/ \E p \in Procs : RaceWrite(p)

RaceSpec == RaceInit /\ [][RaceNext]_vars

(***************************************************************************)
(* main(): executions of the pipeline, one after the other, against the    *)
(* same database and output directories. What the network returns (feeds,  *)
(* listing pages, article responses, exceptions) is chosen by the          *)
(* environment from small universes.                                       *)
(***************************************************************************)

MaxRuns == 2

\* Candidates the executions may discover in all.
MaxItems == 2

MaxClock == 2

URL_OFF      == <<"h","t","t","p",":","/","/","d",".","e","s","/","f","u","t","b","o","l","/","x","1">>
URL_REDIRECT == <<"h","t","t","p",":","/","/","m",".","d",".","e","s","/","n","/","u","f","c","1">>

Pad(n) == Tuple([i \in 1..n |-> "."])

\* What trafilatura may return for an article page, before .strip():
\* nothing; MIN_CHARS characters once stripped (with a run of whitespace
\* inside); one character short of MIN_CHARS once stripped.
RAW_EMPTY  == <<>>
RAW_EXACT  == <<"U","F","C"," "," ","3","0","0","\n">> \o Pad(MIN_CHARS - 9) \o <<"\n">>
RAW_ALMOST == <<" ","B","o","x","e","o"," ">> \o Pad(MIN_CHARS - 7)

\* What fetch(url) followed by trafilatura may give for an article url.
Responses(url) ==
    { [status |-> 200, final_url |-> URL_REDIRECT, raw |-> RAW_EXACT],
      [status |-> 200, final_url |-> url,          raw |-> RAW_ALMOST],
      [status |-> 404, final_url |-> url,          raw |-> RAW_EMPTY] }

\* repr(ex) of the exceptions fetch/extract may raise.
Exceptions == { <<"C","o","n","n","e","c","t","E","r","r","o","r","(","'","r","e","f","u","s","e","d","'",")">> }

ENTRY_A   == [title |-> LINK_TEXT_A, link |-> URL_A, published |-> <<"M","o","n">>]
ENTRY_OFF == [title |-> <<"L","i","g","a",":"," ","r","e","s","u","m","e","n">>, link |-> URL_OFF, published |-> <<>>]

\* What feedparser.parse may return as feed.entries.
Feeds == { <<>>, <<ENTRY_OFF>>, <<ENTRY_A, ENTRY_A>> }

ANCHOR_A_REL == [href |-> <<"/","n","/","u","f","c","1">>,            text |-> LINK_TEXT_A]
ANCHOR_B     == [href |-> <<"h","t","t","p",":","/","/","d",".","e","s","/","n","/","b","o","x","2">>, text |-> LINK_TEXT_B]
ANCHOR_NAV   == [href |-> <<"/","n","/","v","e","r","/","m","m","a">>,         text |-> LINK_TEXT_A]

\* What fetch(list_url) may return for a listing page.
Pages ==
    { [final_url |-> LIST_FINAL_URL, anchors |-> as] :
        as \in { <<>>, <<ANCHOR_A_REL>>, <<ANCHOR_NAV, ANCHOR_B>> } }

Init == DbInit /\ MainIdle /\ StoreIdle /\ DiscoverIdle /\ ClassifyIdle /\ RaceIdle

harnessVars == <<storeVars, discoverVars, classifyVars, raceVars>>

\* A call of now_utc_iso(): the clock has moved on (or not) since it was last read.
Ticks == clock..MaxClock

\* main() up to the source loop: directories, SQLiteStore(db_path) (the tables
\* exist from the first execution on), run_id, the counters.
StartRun ==
    /\ pc \in {"idle", "done", "aborted"}
    /\ nruns < MaxRuns
    /\ \E t \in Ticks :
        /\ clock' = t
        /\ run_id' = now_utc_iso(t)
    /\ nruns' = nruns + 1
    /\ pc' = "source"
    /\ si' = 1 /\ items' = <<>> /\ ii' = 0 /\ row' = NoRow
    /\ total_candidates' = 0 /\ stored_new' = 0 /\ stored_updated' = 0
    /\ skipped_existing' = 0 /\ extract_ok' = 0
    /\ rows_probe' = <<>>
    /\ probe_json' = <<>> /\ site' = NoSite
    /\ fx' = NoFx /\ out_log' = <<>> /\ discovered' = 0
    /\ UNCHANGED <<dbVars, found, recorded, harnessVars>>

\* The items of the source are set and the candidate loop starts.
Discovered(its) ==
    /\ found + Len(its) <= MaxItems
    /\ items' = its
    /\ ii' = 1
    /\ discovered' = discovered + Len(its)
    /\ found' = found + Len(its)
    /\ pc' = "item"
    /\ fx' = NoFx
    /\ UNCHANGED <<dbVars, clock, nruns, run_id, si, row, counterVars, rows_probe,
                   fileVars, out_log, recorded, harnessVars>>

\* for src in SOURCES, type "rss": items = get_urls_from_rss(...)
DiscoverRss ==
    /\ pc = "source" /\ si <= Len(SOURCES)
    /\ SOURCES[si].type = <<"r","s","s">>
    /\ \E entries \in Feeds : Discovered(get_urls_from_rss(entries, PER_SOURCE_LIMIT))

\* for src in SOURCES, type "html_list": items = get_urls_from_html_list(...)
DiscoverHtmlList ==
    /\ pc = "source" /\ si <= Len(SOURCES)
    /\ SOURCES[si].type = <<"h","t","m","l","_","l","i","s","t">>
    /\ \E page \in Pages : Discovered(get_urls_from_html_list(page, PER_SOURCE_LIMIT * 2))

\* The discovery call raises (nothing in main catches it): the process ends.
DiscoverRaises ==
    /\ pc = "source" /\ si <= Len(SOURCES)
    /\ SOURCES[si].type \in {<<"r","s","s">>, <<"h","t","m","l","_","l","i","s","t">>}
    /\ pc' = "aborted"
    /\ out_log' = Append(out_log, "discovery_raised")
    /\ fx' = NoFx
    /\ UNCHANGED <<dbVars, clock, nruns, run_id, si, items, ii, row, counterVars,
                   rows_probe, fileVars, discovered, found, recorded, harnessVars>>

\* The source loop is over.
SourcesDone ==
    /\ pc = "source" /\ si > Len(SOURCES)
    /\ pc' = "record"
    /\ fx' = NoFx
    /\ UNCHANGED <<dbVars, clock, nruns, run_id, si, items, ii, row, counterVars,
                   rows_probe, fileVars, out_log, discovered, found, recorded, harnessVars>>

\* Mutant: the source loop does not move on to the next source.
ItemsDone_SameSource ==
    /\ pc = "item" /\ ii > Len(items)
    /\ pc' = "source"
    /\ fx' = NoFx
    /\ UNCHANGED <<dbVars, clock, nruns, run_id, si, items, ii, row, counterVars,
                   rows_probe, fileVars, out_log, discovered, found, recorded, harnessVars>>

\* The candidate loop of the source is over: next source.
ItemsDone ==
    /\ pc = "item" /\ ii > Len(items)
    /\ si' = si + 1
    /\ pc' = "source"
    /\ fx' = NoFx
    /\ UNCHANGED <<dbVars, clock, nruns, run_id, items, ii, row, counterVars,
                   rows_probe, fileVars, out_log, discovered, found, recorded, harnessVars>>

\* A candidate the topic filter rejects: continue.
CandidateOffTopic ==
    /\ pc = "item" /\ ii <= Len(items)
    /\ ~looks_like_combat_sports(items[ii].title, items[ii].url)
    /\ total_candidates' = total_candidates + 1
    /\ ii' = ii + 1
    /\ fx' = NoFx
    /\ UNCHANGED <<dbVars, clock, pc, nruns, run_id, si, items, row, stored_new,
                   stored_updated, skipped_existing, extract_ok, rows_probe, fileVars,
                   out_log, discovered, found, recorded, harnessVars>>

\* A candidate whose url the store has: counted and skipped.
CandidateExisting ==
    /\ pc = "item" /\ ii <= Len(items)
    /\ looks_like_combat_sports(items[ii].title, items[ii].url)
    /\ has_url(articles, items[ii].url)
    /\ total_candidates' = total_candidates + 1
    /\ skipped_existing' = skipped_existing + 1
    /\ ii' = ii + 1
    /\ fx' = NoFx
    /\ UNCHANGED <<dbVars, clock, pc, nruns, run_id, si, items, row, stored_new,
                   stored_updated, extract_ok, rows_probe, fileVars,
                   out_log, discovered, found, recorded, harnessVars>>

\* A candidate to fetch: its row dict is built.
CandidateNew ==
    /\ pc = "item" /\ ii <= Len(items)
    /\ looks_like_combat_sports(items[ii].title, items[ii].url)
    /\ ~has_url(articles, items[ii].url)
    /\ total_candidates' = total_candidates + 1
    /\ row' = BaseRow(SOURCES[si], items[ii])
    /\ pc' = "fetch"
    /\ fx' = NoFx
    /\ UNCHANGED <<dbVars, clock, nruns, run_id, si, items, ii, stored_new,
                   stored_updated, skipped_existing, extract_ok, rows_probe, fileVars,
                   out_log, discovered, found, recorded, harnessVars>>

\* rows_probe.append(row) and on to the next candidate.
NextCandidate(r) ==
    /\ rows_probe' = Append(rows_probe, r)
    /\ ii' = ii + 1
    /\ row' = NoRow
    /\ pc' = "item"

\* fetch or extract_text raises: the except branch.
FetchRaises(ex) ==
    /\ pc = "fetch"
    /\ NextCandidate(ErrorRow(row, ex))
    /\ fx' = [kind |-> "raised", ex |-> ex]
    /\ UNCHANGED <<dbVars, clock, nruns, run_id, si, items, counterVars, fileVars,
                   out_log, discovered, found, recorded, harnessVars>>

\* The page is fetched and its text is shorter than MIN_CHARS.
FetchLow(resp) ==
    /\ pc = "fetch"
    /\ LET text == extract_text(resp.raw)
       IN  /\ Len(text) < MIN_CHARS
           /\ NextCandidate(WithError(FetchedRow(row, resp.status, resp.final_url, text),
                                      LOW_CHARS_ERROR))
    /\ \E t \in Ticks : clock' = t
    /\ fx' = [kind |-> "low", ex |-> <<>>]
    /\ UNCHANGED <<dbVars, nruns, run_id, si, items, counterVars, fileVars,
                   out_log, discovered, found, recorded, harnessVars>>

INTEGRITY_ERROR == <<"I","n","t","e","g","r","i","t","y","E","r","r","o","r","(","'","U","N","I","Q","U","E"," ","c","o","n","s","t","r","a","i","n","t"," ","f","a","i","l","e","d",":"," ","a","r","t","i","c","l","e","s",".","u","r","l","'",")">>

\* The page is fetched, its text is long enough and the article is upserted.
FetchStore(resp) ==
    /\ pc = "fetch"
    /\ LET text    == extract_text(resp.raw)
           fetched == FetchedRow(row, resp.status, resp.final_url, text)
       IN  /\ Len(text) >= MIN_CHARS
           /\ \E t \in Ticks :
               LET art == MakeArticle(fetched, resp.final_url, now_utc_iso(t), text)
                   r   == upsert_article(articles, art)
               IN  /\ clock' = t
                   /\ articles' = r.table
                   /\ stored_new' = IF r.res = "new" THEN stored_new + 1 ELSE stored_new
                   /\ stored_updated' =
                          IF r.res = "updated" THEN stored_updated + 1 ELSE stored_updated
                   /\ IF r.res = "IntegrityError"
                      THEN /\ NextCandidate(ErrorRow(row, INTEGRITY_ERROR))
                           /\ fx' = [kind |-> "raised", ex |-> INTEGRITY_ERROR]
                      ELSE /\ NextCandidate(fetched)
                           /\ fx' = [kind |-> r.res, ex |-> <<>>]
    /\ extract_ok' = extract_ok + 1
    /\ UNCHANGED <<runs, nruns, run_id, si, items, total_candidates, skipped_existing,
                   fileVars, out_log, discovered, found, recorded, harnessVars>>

\* finished_at and store.record_run(...)
RecordRun ==
    /\ pc = "record"
    /\ \E t \in Ticks :
        /\ clock' = t
        /\ runs' = record_run(runs,
             [run_id |-> run_id, started_at |-> run_id, finished_at |-> now_utc_iso(t),
              total_candidates |-> total_candidates, stored_new |-> stored_new,
              stored_updated |-> stored_updated, skipped_existing |-> skipped_existing,
              extract_ok |-> extract_ok])
    /\ recorded' = recorded + 1
    /\ out_log' = Append(out_log, "record_run")
    /\ pc' = "probe"
    /\ fx' = NoFx
    /\ UNCHANGED <<articles, nruns, run_id, si, items, ii, row, counterVars, rows_probe,
                   fileVars, discovered, found, harnessVars>>

\* json.dump(rows_probe, ...) into out/probe.json
WriteProbe ==
    /\ pc = "probe"
    /\ probe_json' = rows_probe
    /\ out_log' = Append(out_log, "probe_json")
    /\ pc' = "site"
    /\ fx' = NoFx
    /\ UNCHANGED <<dbVars, clock, nruns, run_id, si, items, ii, row, counterVars,
                   rows_probe, site, discovered, found, recorded, harnessVars>>

\* recent = store.list_recent(...); build_index(recent, ...); the prints; exit.
BuildSite ==
    /\ pc = "site"
    /\ \E recent \in list_recent(articles, LIST_RECENT_LIMIT) :
        LET items_json == [i \in 1..Len(recent) |-> SiteItem(recent[i])]
        IN  \E t \in Ticks :
                /\ clock' = t
                /\ site' = build_index(items_json, now_utc_iso(t))
    /\ out_log' = Append(out_log, "build_site")
    /\ pc' = "done"
    /\ fx' = NoFx
    /\ UNCHANGED <<dbVars, nruns, run_id, si, items, ii, row, counterVars, rows_probe,
                   probe_json, discovered, found, recorded, harnessVars>>

Next ==
    \/ StartRun
    \/ DiscoverRss
    \/ DiscoverHtmlList
    \/ DiscoverRaises
    \/ SourcesDone
    \/ ItemsDone
    \/ CandidateOffTopic
    \/ CandidateExisting
    \/ CandidateNew
    \/ \E ex \in Exceptions : FetchRaises(ex)
    \/ \E resp \in Responses(row.url) : FetchLow(resp)
    \/ \E resp \in Responses(row.url) : FetchStore(resp)
    \/ RecordRun
    \/ WriteProbe
    \/ BuildSite

Spec == Init /\ [][Next]_vars

\* The control point of main(): where it stands, in which execution.
ctl == <<pc, si, ii, nruns>>

PcValues == {"idle", "source", "item", "fetch", "record", "probe", "site", "done", "aborted"}

\* Some step of Next can be taken: an execution is under way, or one more may start.
CanStep == pc \in {"source", "item", "fetch", "record", "probe", "site"} \/ nruns < MaxRuns

\* The control point moves. Every step of Next moves it (EveryStepAdvances)
\* and a step of Next can be taken exactly when CanStep holds, so under Spec
\* the steps of Advance are the steps of Next.
Advance ==
    /\ CanStep
    /\ pc' \in PcValues
    /\ si' \in 0..(Len(SOURCES) + 1)
    /\ ii' \in 0..(MaxItems + 1)
    /\ nruns' \in 0..MaxRuns

\* main() is sequential code and every call it makes returns or raises (the
\* HTTP client has a timeout): while a step can be taken, the control point
\* does not stand still for ever.
FairSpec == Spec /\ WF_ctl(Advance)

(***************************************************************************)
(* Properties.                                                             *)
(***************************************************************************)

IsUpsert == ev.op = "upsert_article"

\* A store call was made in this step (seq alternates on every call).
Called == ev'.seq # ev.seq

\* C2: upsert_article on a store with no row for a.url returns "new", and the
\* same call repeated right after it returns "unchanged".
C2_UpsertIdempotent ==
    IsUpsert =>
        /\ (~ev.had => ev.res = "new")
        /\ (ev.after = "new" => ev.res = "unchanged")

C2_Witness == IsUpsert /\ ev.after = "new" /\ ev.res = "unchanged"

\* C3: when a row exists for a.url, upsert_article returns "updated" exactly
\* when a.content_hash or a.extracted_chars differs from the stored value;
\* differences in any other field alone never give "updated".
C3_UpdatedIffContentDiffers ==
    [][(Called /\ IsUpsert' /\ has_url(articles, ev'.a.url)) =>
        LET stored == get_by_url(articles, ev'.a.url)[1]
        IN  ev'.res = "updated" <=>
                \/ stored.content_hash # ev'.a.content_hash
                \/ stored.extracted_chars # ev'.a.extracted_chars]_vars

C3_Witness ==
    /\ IsUpsert /\ ev.had /\ ev.res = "updated"
    /\ ev.a.content_hash # <<>> /\ ev.a.extracted_chars = 0

\* C4: a call of upsert_article that returns "unchanged" writes nothing: the
\* articles and runs tables are exactly as before, also when the incoming
\* article's other fields differ from the stored row's.
C4_UnchangedWritesNothing ==
    [][(Called /\ IsUpsert' /\ ev'.res = "unchanged") =>
        (articles' = articles /\ runs' = runs)]_vars

C4_Witness ==
    /\ IsUpsert /\ ev.res = "unchanged"
    /\ ev.a \notin articles /\ has_url(articles, ev.a.url) /\ runs # {}

StoredUrls == {r.url : r \in articles}

OneRowPerUrl ==
    /\ StoredUrls = upserted
    /\ \A u \in upserted : Cardinality(SelectByUrl(articles, u)) = 1

\* C5: the articles table holds exactly one row for each url ever upserted
\* (a re-ingested url is updated in place), and no step removes a url.
C5_OneRowPerUrlNeverRemoved ==
    [][OneRowPerUrl' /\ StoredUrls \subseteq StoredUrls']_vars

C5_Witness ==
    /\ IsUpsert /\ ev.res = "updated" /\ Cardinality(articles) = 2
    /\ upserted = StoreUrls

\* C6: classify_sport returns the same category for every permutation of
\* its three arguments (title, url, text).
C6_OrderIndependent ==
    cs_out # "none" => cs_out = classify_sport(cs_in[1], cs_in[2], cs_in[3])

NoDupUrls(out) == \A i, j \in 1..Len(out) : out[i].url = out[j].url => i = j

\* The candidates whose url no earlier candidate has, in first-seen order.
RECURSIVE FirstSeen(_)
FirstSeen(cands) ==
    IF cands = <<>> THEN <<>>
    ELSE LET n     == Len(cands)
             front == FirstSeen(SubSeq(cands, 1, n - 1))
         IN  IF \E k \in 1..(n - 1) : cands[k].url = cands[n].url
             THEN front ELSE Append(front, cands[n])

\* C7: get_urls_from_html_list never returns two candidates with the same
\* url; it returns the first `limit` distinct hrefs among the anchors that
\* survive the filters, in first-seen order; so at most `limit` candidates.
C7_FirstLimitDistinct ==
    hl_done =>
        /\ NoDupUrls(hl_out)
        /\ hl_out = Take(FirstSeen(HtmlCandidates(hl_page.anchors, hl_page.final_url)), hl_limit)
        /\ Len(hl_out) <= hl_limit

\* The same statement for limit >= 1, which the code meets.
HtmlListFirstLimitDistinctFromOne ==
    (hl_done /\ hl_limit >= 1) =>
        /\ NoDupUrls(hl_out)
        /\ hl_out = Take(FirstSeen(HtmlCandidates(hl_page.anchors, hl_page.final_url)), hl_limit)
        /\ Len(hl_out) <= hl_limit

\* C1: every url of the articles table is reported by has_url, and whenever
\* main is about to fetch a candidate's url, the table holds no row for that
\* url (rows stored earlier in the same execution included).
C1_NoFetchOfStoredUrl ==
    /\ \A r \in articles : has_url(articles, r.url)
    /\ pc = "fetch" => row.url \notin StoredUrls

\* The same url was discovered twice in one execution: stored the first
\* time, skipped without a fetch the second time.
C1_Witness ==
    /\ pc = "item" /\ stored_new = 1 /\ skipped_existing = 1
    /\ Len(rows_probe) = 1 /\ rows_probe[1].url \in StoredUrls

\* The step ends in the except branch of the candidate loop.
Raised == pc = "fetch" /\ fx'.kind = "raised"

\* C8: an exception raised while a candidate is fetched or extracted is
\* caught: one row is appended to the debug rows, for that candidate, with
\* http_status, final_url and domain null, extract_ok false and the exception
\* text as error; the tables are not written; the loop goes on to the next
\* candidate and the failed one is not fetched again.
C8_ExceptionCaughtAndRecorded ==
    [][Raised =>
        /\ Len(rows_probe') = Len(rows_probe) + 1
        /\ SubSeq(rows_probe', 1, Len(rows_probe)) = rows_probe
        /\ LET r == rows_probe'[Len(rows_probe')]
           IN  /\ r.url = row.url
               /\ r.http_status = None /\ r.final_url = None /\ r.domain = None
               /\ r.extract_ok = FALSE
               /\ r.error = fx'.ex /\ r.error # <<>>
        /\ articles' = articles /\ runs' = runs
        /\ pc' = "item" /\ items' = items /\ ii' = ii + 1]_vars

\* A candidate raised and the candidate after it was fetched and stored.
C8_Witness ==
    /\ Len(rows_probe) = 2
    /\ rows_probe[1].http_status = None /\ rows_probe[1].extract_ok = FALSE
    /\ rows_probe[1].error \in Exceptions
    /\ rows_probe[2].extract_ok /\ stored_new = 1

\* Every step of main() moves its control point.
EveryStepAdvances == [][ctl' # ctl]_vars

Running  == pc \in {"source", "item", "fetch", "record", "probe", "site"}

OUTPUT_ORDER == <<"record_run", "probe_json", "build_site">>

\* The outputs of the execution so far are the first ones of OUTPUT_ORDER.
OutputsInOrder ==
    /\ Len(out_log) <= Len(OUTPUT_ORDER)
    /\ out_log = SubSeq(OUTPUT_ORDER, 1, Len(out_log))

\* Every source was gone through and every candidate discovered was handled.
AllProcessed ==
    /\ si = Len(SOURCES) + 1
    /\ total_candidates = discovered

\* C9: an execution of main ends; unless a discovery call raised, it ends with
\* the run summary recorded, then the debug JSON written, then the site
\* built, none of them before every candidate of every source was handled,
\* whatever the fetches and extractions of the candidates did.
C9_RunCompletes ==
    /\ [](pc = "aborted" => out_log = <<"discovery_raised">>)
    /\ [](pc # "aborted" => OutputsInOrder /\ (out_log # <<>> => AllProcessed))
    /\ [](pc = "done" => out_log = OUTPUT_ORDER /\ probe_json = rows_probe
                          /\ \E r \in runs : r.run_id = run_id)
    /\ (Running ~> (pc = "done" \/ pc = "aborted"))

\* An execution ended normally although one candidate raised and another
\* gave too little text.
C9_Witness ==
    /\ pc = "done" /\ out_log = OUTPUT_ORDER
    /\ Len(probe_json) = 2
    /\ probe_json[1].http_status = None
    /\ probe_json[2].http_status # None /\ ~probe_json[2].extract_ok

\* C10: the runs table holds one row for each execution that recorded its
\* summary (a later execution never replaces the row of an earlier one).
C10_OneRowPerExecution == Cardinality(runs) = recorded

\* A stored article meets the extraction threshold and its length and digest
\* are those of its text.
MeetsThreshold(r) ==
    /\ r.extracted_chars >= MIN_CHARS
    /\ r.extracted_chars = Len(r.text)
    /\ r.content_hash = sha(r.text)
    /\ r.content_hash # <<>>

\* The step handles a candidate whose text is shorter than MIN_CHARS.
BelowThreshold == pc = "fetch" /\ fx'.kind = "low"

\* C11: with main as the only writer, every row of the articles table has
\* extracted_chars >= MIN_CHARS, extracted_chars equal to the length of its
\* text and content_hash the digest of that text, never empty; a candidate
\* whose text is shorter than MIN_CHARS writes neither table and gets one
\* debug row with extract_ok false and the low-length error message.
C11_StoredMeetsThreshold ==
    /\ [](\A r \in articles : MeetsThreshold(r))
    /\ [][BelowThreshold =>
            /\ articles' = articles /\ runs' = runs
            /\ Len(rows_probe') = Len(rows_probe) + 1
            /\ LET r == rows_probe'[Len(rows_probe')]
               IN  /\ r.url = row.url
                   /\ r.extract_ok = FALSE
                   /\ r.extracted_chars < MIN_CHARS
                   /\ r.error = LOW_CHARS_ERROR]_vars

\* One candidate one character short of the threshold was recorded without a
\* write, and the next one, exactly at the threshold, was stored.
C11_Witness ==
    /\ Len(rows_probe) = 2
    /\ rows_probe[1].extracted_chars = MIN_CHARS - 1 /\ ~rows_probe[1].extract_ok
    /\ rows_probe[2].extracted_chars = MIN_CHARS /\ rows_probe[2].extract_ok
    /\ Cardinality(articles) = 1

\* Both processes have returned (or raised).
BothDone == \A p \in Procs : cu_proc[p].pc = "done"

\* Both processes read before either wrote.
Overlapped ==
    /\ Len(cu_log) >= 2
    /\ cu_log[1][2] = "read" /\ cu_log[2][2] = "read"

\* The results <<of process 1, of process 2>> of the two calls made one after
\* the other, in either order, from table tbl.
SequentialResults(tbl, a1, a2) ==
    LET f1 == upsert_article(tbl, a1)
        s1 == upsert_article(f1.table, a2)
        f2 == upsert_article(tbl, a2)
        s2 == upsert_article(f2.table, a1)
    IN  { <<f1.res, s1.res>>, <<s2.res, f2.res>> }

RaceResults == <<cu_proc[1].res, cu_proc[2].res>>

\* The two calls behaved like the calls made one after the other, in some order.
LikeSequential ==
    RaceResults \in SequentialResults(cu_start, cu_proc[1].a, cu_proc[2].a)

SameUrlCalls == cu_proc[1].a.url = cu_proc[2].a.url

\* C12: upsert_article is a read and then a write, and two processes that
\* upsert the same url can both read before either writes. When both read
\* "no row", the first INSERT returns "new" and the second raises on the
\* primary key; when both read the same old row and both articles differ
\* from it, both return "updated", also when the two articles have the same
\* content. Neither pair of results is one that two calls made one after the
\* other give. The articles table still never holds two rows for one url.
C12_UpsertNotAtomic ==
    /\ \A r1, r2 \in articles : r1.url = r2.url => r1 = r2
    /\ (BothDone /\ ~Overlapped) => LikeSequential
    /\ (BothDone /\ Overlapped /\ SameUrlCalls) =>
         LET first   == cu_log[3][1]
             second  == cu_log[4][1]
             a1      == cu_proc[1].a
             a2      == cu_proc[2].a
             old     == cu_proc[1].existing
         IN  /\ cu_proc[2].existing = old
             /\ old = None =>
                  /\ cu_proc[first].res = "new"
                  /\ cu_proc[second].res = "IntegrityError"
                  /\ ~LikeSequential
             /\ (old # None /\ ~SameContent(old[1], a1) /\ ~SameContent(old[1], a2)) =>
                  /\ RaceResults = <<"updated", "updated">>
                  /\ (SameContent(a1, a2) => ~LikeSequential)

\* Both processes read "no row" for the same url; the second INSERT raised.
C12_Witness ==
    /\ BothDone /\ Overlapped /\ SameUrlCalls
    /\ cu_proc[1].existing = None /\ cu_proc[2].existing = None
    /\ RaceResults = <<"new", "IntegrityError">>
    /\ ~LikeSequential
    /\ Cardinality(articles) = 1

\* Both processes read the same old row and both returned "updated" for
\* articles of the same content.
RaceBothUpdated ==
    /\ BothDone /\ Overlapped /\ SameUrlCalls
    /\ cu_proc[1].existing = Some(OLD_ROW)
    /\ SameContent(cu_proc[1].a, cu_proc[2].a)
    /\ RaceResults = <<"updated", "updated">>
    /\ ~LikeSequential

\* The step is a call of upsert_article by main (the extraction passed the
\* threshold), with its result in fx'.kind.
UpsertStep == pc = "fetch" /\ extract_ok' = extract_ok + 1

\* C13: with one execution of main at a time as the only writer, main calls
\* upsert_article only for a url has_url reported absent, and every such call
\* returns "new"; stored_updated is 0 all along and in every recorded run
\* summary; stored_new counts the rows added to the articles table since the
\* execution started, and the summary records that count; no row of the
\* table is ever modified or removed by a later step.
C13_EveryUpsertIsNew ==
    /\ [](stored_updated = 0 /\ \A r \in runs : r.stored_updated = 0)
    /\ [][UpsertStep => (~has_url(articles, row.url) /\ fx'.kind = "new")]_vars
    /\ [][articles \subseteq articles']_vars
    /\ [][IF nruns' # nruns
          THEN stored_new' = 0 /\ articles' = articles
          ELSE stored_new' - stored_new = Cardinality(articles') - Cardinality(articles)]_vars
    /\ [][recorded' # recorded =>
            \E r \in runs' : r.run_id = run_id /\ r.stored_new = stored_new]_vars

\* Two executions each added one article; each summary says one new, none updated.
C13_Witness ==
    /\ nruns = 2 /\ pc = "done"
    /\ Cardinality(articles) = 2 /\ stored_new = 1
    /\ Cardinality(runs) = 2
    /\ \A r \in runs : r.stored_new = 1 /\ r.stored_updated = 0

\* The terms of the topic filter's boxing list that the classifier's list lacks.
FILTER_ONLY_TERMS == << <<"p","e","s","o"," ","p","l","u","m","a">>, <<"p","e","s","o"," ","w","e","l","t","e","r">>, <<"p","e","s","o"," ","m","e","d","i","o">> >>

\* The classifier was called with the fields in the order (title, url, text).
ClassifiedInOrder == cs_out # "none" /\ cs_order = <<1, 2, 3>>

\* What the classifier would return if it tested the topic filter's lists.
CategoryByFilterLists(title, url, text) ==
    LET s   == Lower(title \o SPACE \o url \o SPACE \o text)
        mma == AnyIn(KEYWORDS_MMA, s)
        box == AnyIn(KEYWORDS_BOX, s)
    IN  IF mma /\ ~box THEN "MMA"
        ELSE IF box /\ ~mma THEN "Boxeo"
        ELSE IF mma /\ box THEN "Mixto"
        ELSE "Otro"

\* C14: classify_sport tests the two keyword lists of the topic filter: a
\* (title, url) that looks_like_combat_sports accepts is never classified
\* "Otro", whatever the text, and the category is "MMA", "Boxeo" or "Mixto"
\* according to which of the filter's lists have a term in the three fields.
C14_AcceptedNeverOtro ==
    ClassifiedInOrder =>
        /\ looks_like_combat_sports(cs_in[1], cs_in[2]) => cs_out # "Otro"
        /\ cs_out = CategoryByFilterLists(cs_in[1], cs_in[2], cs_in[3])

\* The same statement for fields without the terms only the filter has,
\* which the code meets.
AcceptedNeverOtroWithoutFilterOnlyTerms ==
    (ClassifiedInOrder
        /\ ~AnyIn(FILTER_ONLY_TERMS, Lower(cs_in[1] \o SPACE \o cs_in[2] \o SPACE \o cs_in[3]))) =>
        /\ looks_like_combat_sports(cs_in[1], cs_in[2]) => cs_out # "Otro"
        /\ cs_out = CategoryByFilterLists(cs_in[1], cs_in[2], cs_in[3])

=============================================================================
